---- MODULE Spec2Model ----
(***************************************************************************)
(* flow-notes persistence backend (src-tauri/src/main.rs): two directory   *)
(* backed JSON stores, notes/ and pdfs/, and the eleven Tauri commands     *)
(* that read and write them.                                               *)
(*                                                                         *)
(* A directory is a record [exists, files]; files maps a file name         *)
(* [stem, ext] to the text of the file.  The text of a file is modelled by *)
(* the JSON value it denotes (a tagged tree), or by Malformed when it is   *)
(* not JSON at all.  serde's derived Serialize / Deserialize are the       *)
(* operators *ToJson / *FromJson.  Timestamps are strings of decimal       *)
(* digits, kept as sequences of digits so that String::cmp (byte-wise      *)
(* lexicographic order) can be computed.                                   *)
(*                                                                         *)
(* Spec runs the commands one at a time, each as one step.                 *)
(* SpecInterleaved runs create_note and save_pdf_annotation, the commands  *)
(* that read the store and write it later, for two callers step by step:   *)
(* no handler takes a lock, so the file-system calls of two invocations    *)
(* (two windows, two instances of the application on one data directory)   *)
(* can come in any order.                                                  *)
(*                                                                         *)
(* Environment failures (no platform data directory, permissions, disk     *)
(* full, unreadable files) are not modelled: every fs call succeeds.       *)
(***************************************************************************)
EXTENDS Integers, Sequences, FiniteSets, TLC

\* notes, pdfs: the two store directories; clock: the last reading of
\* SystemTime::now(); call: the command that returned last, with its argument
\* and result; prev: the command before it; ncalls: commands that have
\* returned so far; frame: for each caller, where it is in the command it
\* invoked and the locals of that command.
VARIABLES notes, pdfs, clock, call, prev, ncalls, frame

vars == <<notes, pdfs, clock, call, prev, ncalls, frame>>

\* ------------------------------------------------------------------ bounds

\* SystemTime::now() reads 0..MaxClock seconds.
MaxClock == 1

\* Commands invoked in one run.
MaxCalls == 2

\* ------------------------------------------------------- Option and Result

None == [some |-> FALSE]

Some(v) == [some |-> TRUE, v |-> v]

Ok(v) == [ok |-> TRUE, val |-> v]

Err(e) == [ok |-> FALSE, err |-> e]

Unit == "()"

\* e.to_string() of a serde_json::Error
ParseError == "serde_json::Error"

\* ------------------------------------------------------------- JSON values

JNull == [t |-> "null"]

JBool(b) == [t |-> "bool", b |-> b]

\* an integer literal
JNum(n) == [t |-> "number", n |-> n]

\* a literal with a fraction, as serde_json prints an f64 (1.0)
JFloat(x) == [t |-> "float", x |-> x]

JStr(s) == [t |-> "string", s |-> s]

JArr(a) == [t |-> "array", a |-> a]

JObj(o) == [t |-> "object", o |-> o]

\* text that is not JSON
Malformed == [t |-> "malformed"]

IsStr(j) == j.t = "string"

IsInt(j) == j.t = "number"

IsF64(j) == j.t \in {"number", "float"}

IsArr(j) == j.t = "array"

IsObj(j) == j.t = "object"

Has(j, k) == k \in DOMAIN j.o

\* Option<T> field: absent or null is None
OptField(j, k) == IF Has(j, k) /\ j.o[k] # JNull THEN Some(j.o[k]) ELSE None

OptStrToJson(o) == IF o.some THEN JStr(o.v) ELSE JNull

OptBoolToJson(o) == IF o.some THEN JBool(o.v) ELSE JNull

\* ------------------------------------------------------------------- Block

RECURSIVE BlockToJson(_)
BlockToJson(b) ==
    JObj([id |-> JStr(b.id),
          type |-> JStr(b.type),
          content |-> JStr(b.content),
          checked |-> OptBoolToJson(b.checked),
          file_path |-> OptStrToJson(b.file_path),
          children |-> IF b.children.some
                       THEN JArr([i \in DOMAIN b.children.v |-> BlockToJson(b.children.v[i])])
                       ELSE JNull,
          order |-> JNum(b.order)])

RECURSIVE BlockShape(_)
BlockShape(j) ==
    /\ IsObj(j)
    /\ Has(j, "id") /\ IsStr(j.o.id)
    /\ Has(j, "type") /\ IsStr(j.o.type)
    /\ Has(j, "content") /\ IsStr(j.o.content)
    /\ OptField(j, "checked").some => j.o.checked.t = "bool"
    /\ OptField(j, "file_path").some => IsStr(j.o.file_path)
    /\ OptField(j, "children").some =>
          /\ IsArr(j.o.children)
          /\ \A i \in DOMAIN j.o.children.a : BlockShape(j.o.children.a[i])
    /\ Has(j, "order") /\ IsInt(j.o.order)

RECURSIVE BlockFromJson(_)
BlockFromJson(j) ==
    [id |-> j.o.id.s,
     type |-> j.o.type.s,
     content |-> j.o.content.s,
     checked |-> IF OptField(j, "checked").some THEN Some(j.o.checked.b) ELSE None,
     file_path |-> IF OptField(j, "file_path").some THEN Some(j.o.file_path.s) ELSE None,
     children |-> IF OptField(j, "children").some
                  THEN Some([i \in DOMAIN j.o.children.a |-> BlockFromJson(j.o.children.a[i])])
                  ELSE None,
     order |-> j.o.order.n]

\* -------------------------------------------------------------------- Note

TagsToJson(o) == IF o.some THEN JArr([i \in DOMAIN o.v |-> JStr(o.v[i])]) ELSE JNull

TagsShape(j) ==
    OptField(j, "tags").some =>
        /\ IsArr(j.o.tags)
        /\ \A i \in DOMAIN j.o.tags.a : IsStr(j.o.tags.a[i])

TagsFromJson(j) ==
    IF OptField(j, "tags").some
    THEN Some([i \in DOMAIN j.o.tags.a |-> j.o.tags.a[i].s])
    ELSE None

\* mutant: the tags are not written
NoteToJsonSkipTags(n) ==
    JObj([id |-> JStr(n.id),
          title |-> JStr(n.title),
          blocks |-> JArr([i \in DOMAIN n.blocks |-> BlockToJson(n.blocks[i])]),
          created_at |-> JStr(n.created_at),
          updated_at |-> JStr(n.updated_at)])

\* serde_json::to_string_pretty(&note)
NoteToJson(n) ==
    JObj([id |-> JStr(n.id),
          title |-> JStr(n.title),
          blocks |-> JArr([i \in DOMAIN n.blocks |-> BlockToJson(n.blocks[i])]),
          created_at |-> JStr(n.created_at),
          updated_at |-> JStr(n.updated_at),
          tags |-> TagsToJson(n.tags)])

NoteShape(j) ==
    /\ IsObj(j)
    /\ Has(j, "id") /\ IsStr(j.o.id)
    /\ Has(j, "title") /\ IsStr(j.o.title)
    /\ Has(j, "blocks") /\ IsArr(j.o.blocks)
    /\ \A i \in DOMAIN j.o.blocks.a : BlockShape(j.o.blocks.a[i])
    /\ Has(j, "created_at") /\ IsStr(j.o.created_at)
    /\ Has(j, "updated_at") /\ IsStr(j.o.updated_at)
    /\ TagsShape(j)

\* serde_json::from_str::<Note>(&content)
NoteFromJson(j) ==
    IF NoteShape(j)
    THEN Ok([id |-> j.o.id.s,
             title |-> j.o.title.s,
             blocks |-> [i \in DOMAIN j.o.blocks.a |-> BlockFromJson(j.o.blocks.a[i])],
             created_at |-> j.o.created_at.s,
             updated_at |-> j.o.updated_at.s,
             tags |-> TagsFromJson(j)])
    ELSE Err(ParseError)

NoteMetadata(note) ==
    [id |-> note.id,
     title |-> note.title,
     created_at |-> note.created_at,
     updated_at |-> note.updated_at,
     tags |-> note.tags]

\* ----------------------------------------------------------- PDFAnnotation

F64ToJson(x) == JFloat(x)

F64FromJson(j) == IF j.t = "float" THEN j.x ELSE j.n

AnnotationToJson(a) ==
    JObj([id |-> JStr(a.id),
          annotation_type |-> JStr(a.annotation_type),
          content |-> OptStrToJson(a.content),
          page |-> JNum(a.page),
          rect |-> JArr([i \in DOMAIN a.rect |-> F64ToJson(a.rect[i])]),
          color |-> OptStrToJson(a.color)])

AnnotationShape(j) ==
    /\ IsObj(j)
    /\ Has(j, "id") /\ IsStr(j.o.id)
    /\ Has(j, "annotation_type") /\ IsStr(j.o.annotation_type)
    /\ OptField(j, "content").some => IsStr(j.o.content)
    /\ Has(j, "page") /\ IsInt(j.o.page)
    /\ Has(j, "rect") /\ IsArr(j.o.rect) /\ Len(j.o.rect.a) = 4
    /\ \A i \in DOMAIN j.o.rect.a : IsF64(j.o.rect.a[i])
    /\ OptField(j, "color").some => IsStr(j.o.color)

AnnotationFromJson(j) ==
    [id |-> j.o.id.s,
     annotation_type |-> j.o.annotation_type.s,
     content |-> IF OptField(j, "content").some THEN Some(j.o.content.s) ELSE None,
     page |-> j.o.page.n,
     rect |-> [i \in DOMAIN j.o.rect.a |-> F64FromJson(j.o.rect.a[i])],
     color |-> IF OptField(j, "color").some THEN Some(j.o.color.s) ELSE None]

\* ------------------------------------------------------------- PDFDocument

AnnotationsToJson(o) == IF o.some THEN JArr([i \in DOMAIN o.v |-> AnnotationToJson(o.v[i])]) ELSE JNull

\* serde_json::to_string_pretty(&pdf)
PdfToJson(d) ==
    JObj([id |-> JStr(d.id),
          name |-> JStr(d.name),
          path |-> JStr(d.path),
          pages |-> JNum(d.pages),
          created_at |-> JStr(d.created_at),
          updated_at |-> JStr(d.updated_at),
          annotations |-> AnnotationsToJson(d.annotations)])

PdfShape(j) ==
    /\ IsObj(j)
    /\ Has(j, "id") /\ IsStr(j.o.id)
    /\ Has(j, "name") /\ IsStr(j.o.name)
    /\ Has(j, "path") /\ IsStr(j.o.path)
    /\ Has(j, "pages") /\ IsInt(j.o.pages)
    /\ Has(j, "created_at") /\ IsStr(j.o.created_at)
    /\ Has(j, "updated_at") /\ IsStr(j.o.updated_at)
    /\ OptField(j, "annotations").some =>
          /\ IsArr(j.o.annotations)
          /\ \A i \in DOMAIN j.o.annotations.a : AnnotationShape(j.o.annotations.a[i])

\* serde_json::from_str::<PDFDocument>(&content)
PdfFromJson(j) ==
    IF PdfShape(j)
    THEN Ok([id |-> j.o.id.s,
             name |-> j.o.name.s,
             path |-> j.o.path.s,
             pages |-> j.o.pages.n,
             created_at |-> j.o.created_at.s,
             updated_at |-> j.o.updated_at.s,
             annotations |-> IF OptField(j, "annotations").some
                             THEN Some([i \in DOMAIN j.o.annotations.a |-> AnnotationFromJson(j.o.annotations.a[i])])
                             ELSE None])
    ELSE Err(ParseError)

\* ----------------------------------------------------------------- strings

\* format!("{}", now): the decimal digits of a u64
RECURSIVE Decimal(_)
Decimal(n) == IF n < 10 THEN <<n>> ELSE Append(Decimal(n \div 10), n % 10)

\* String::cmp: byte-wise lexicographic; -1 Less, 0 Equal, 1 Greater
RECURSIVE StrCmp(_, _)
StrCmp(a, b) ==
    IF a = <<>> /\ b = <<>> THEN 0
    ELSE IF a = <<>> THEN -1
    ELSE IF b = <<>> THEN 1
    ELSE IF Head(a) < Head(b) THEN -1
    ELSE IF Head(a) > Head(b) THEN 1
    ELSE StrCmp(Tail(a), Tail(b))

\* --------------------------------------------------------------- directory

\* Path::join resolves the name from the store's directory: a leading "./"
\* names that directory again.  Strings cannot be taken apart here, so the ids
\* of the input sets that carry one are listed with what is left of them.
Resolved(id) == IF id = "./a" THEN "a" ELSE id

\* the directory entry dir.join(format!("{}.json", id)) names, as Path splits
\* it in file_stem and extension.  With the empty id the name is ".json": a
\* name that begins with its only dot has no extension (ext "" is None).
JsonFile(id) ==
    IF Resolved(id) = "" THEN [stem |-> ".json", ext |-> ""]
    ELSE [stem |-> Resolved(id), ext |-> "json"]

\* mutant: every entry is taken for a .json file
AnyExtension(path) == "json"

\* path.extension().and_then(|s| s.to_str())
Extension(path) == path.ext

NoFiles == [p \in {} |-> Malformed]

\* get_notes_dir / get_pdfs_dir: create_dir_all when the directory is absent
EnsureDir(dir) == IF dir.exists THEN dir ELSE [exists |-> TRUE, files |-> NoFiles]

\* path.exists()
FileExists(dir, path) == path \in DOMAIN dir.files

\* fs::write(path, text): create or truncate
FsWrite(dir, path, text) ==
    [dir EXCEPT !.files = [p \in DOMAIN dir.files \cup {path} |->
                              IF p = path THEN text ELSE dir.files[p]]]

\* fs::remove_file(path)
FsRemove(dir, path) ==
    [dir EXCEPT !.files = [p \in DOMAIN dir.files \ {path} |-> dir.files[p]]]

RECURSIVE Orders(_)
Orders(S) ==
    IF S = {} THEN {<<>>}
    ELSE UNION {{<<x>> \o o : o \in Orders(S \ {x})} : x \in S}

\* fs::read_dir: the entries in an order the file system chooses
ReadDirOrders(dir) == Orders(DOMAIN dir.files)

\* ------------------------------------------------------------------ sort_by

\* mutant: the operands the other way round, ascending
ByUpdatedAtAsc(a, b) == StrCmp(a.updated_at, b.updated_at)

\* |a, b| b.updated_at.cmp(&a.updated_at)
ByUpdatedAtDesc(a, b) == StrCmp(b.updated_at, a.updated_at)

\* x placed before the first element that compares Greater than it
RECURSIVE InsertSorted(_, _)
InsertSorted(x, s) ==
    IF s = <<>> THEN <<x>>
    ELSE IF ByUpdatedAtDesc(Head(s), x) = 1 THEN <<x>> \o s
    ELSE <<Head(s)>> \o InsertSorted(x, Tail(s))

\* slice::sort_by: stable, equal elements keep their order
RECURSIVE SortBy(_)
SortBy(s) ==
    IF s = <<>> THEN <<>>
    ELSE InsertSorted(s[Len(s)], SortBy(SubSeq(s, 1, Len(s) - 1)))

\* --------------------------------------------------------------- NoteStore
\* Each command is an operator from the directory (and the arguments) to the
\* directory afterwards and the value returned.

SaveNote(dir, note) ==
    LET notes_dir == EnsureDir(dir)
        note_file == JsonFile(note.id)
        json      == NoteToJson(note)
    IN  [dir |-> FsWrite(notes_dir, note_file, json), ret |-> Ok(Unit)]

\* mutant: no exists() check, the read fails instead
LoadNoteUnchecked(dir, note_id) ==
    LET notes_dir == EnsureDir(dir)
        note_file == JsonFile(note_id)
    IN  IF ~FileExists(notes_dir, note_file)
        THEN [dir |-> notes_dir, ret |-> Err("No such file or directory (os error 2)")]
        ELSE [dir |-> notes_dir, ret |-> NoteFromJson(notes_dir.files[note_file])]

LoadNote(dir, note_id) ==
    LET notes_dir == EnsureDir(dir)
        note_file == JsonFile(note_id)
    IN  IF ~FileExists(notes_dir, note_file)
        THEN [dir |-> notes_dir, ret |-> Err("Note not found")]
        ELSE [dir |-> notes_dir, ret |-> NoteFromJson(notes_dir.files[note_file])]

\* the loop over read_dir: one NoteMetadata per .json entry that parses
RECURSIVE ScanNotes(_, _)
ScanNotes(dir, order) ==
    IF order = <<>> THEN <<>>
    ELSE LET path == Head(order)
             note == NoteFromJson(dir.files[path])
         IN  (IF Extension(path) = "json" /\ note.ok
              THEN <<NoteMetadata(note.val)>>
              ELSE <<>>) \o ScanNotes(dir, Tail(order))

ListNotes(dir, order) ==
    LET notes_dir == EnsureDir(dir)
    IN  [dir |-> notes_dir, ret |-> Ok(SortBy(ScanNotes(notes_dir, order)))]

\* mutant: remove_file without the exists() check
DeleteNoteStrict(dir, note_id) ==
    LET notes_dir == EnsureDir(dir)
        note_file == JsonFile(note_id)
    IN  IF FileExists(notes_dir, note_file)
        THEN [dir |-> FsRemove(notes_dir, note_file), ret |-> Ok(Unit)]
        ELSE [dir |-> notes_dir, ret |-> Err("No such file or directory (os error 2)")]

DeleteNote(dir, note_id) ==
    LET notes_dir == EnsureDir(dir)
        note_file == JsonFile(note_id)
    IN  IF FileExists(notes_dir, note_file)
        THEN [dir |-> FsRemove(notes_dir, note_file), ret |-> Ok(Unit)]
        ELSE [dir |-> notes_dir, ret |-> Ok(Unit)]

\* mutant: no title is looked up
TitleNeverTaken(existing_notes, final_title) == FALSE

\* existing_notes.iter().any(|note| note.title == final_title)
TitleTaken(existing_notes, final_title) ==
    \E i \in DOMAIN existing_notes : existing_notes[i].title = final_title

\* mutant: the counter is left out of the candidate
SuffixedOne(title, counter) == title \o " 1"

\* format!("{} {}", title, counter)
Suffixed(title, counter) == title \o " " \o ToString(counter)

\* mutant: one suffix is tried, without looking again
FinalTitleOnce(existing_notes, title, final_title, counter) ==
    IF TitleTaken(existing_notes, final_title)
    THEN title \o " " \o ToString(counter)
    ELSE final_title

\* the while loop of create_note
RECURSIVE FinalTitle(_, _, _, _)
FinalTitle(existing_notes, title, final_title, counter) ==
    IF TitleTaken(existing_notes, final_title)
    THEN FinalTitle(existing_notes, title, title \o " " \o ToString(counter), counter + 1)
    ELSE final_title

NewNote(now, final_title) ==
    [id |-> "note_" \o ToString(now),
     title |-> final_title,
     blocks |-> << [id |-> "block_" \o ToString(now + 1),
                    type |-> "heading",
                    content |-> "Untitled",
                    checked |-> None,
                    file_path |-> None,
                    children |-> None,
                    order |-> 0] >>,
     created_at |-> Decimal(now),
     updated_at |-> Decimal(now),
     tags |-> None]

\* mutant: the note is returned without save_note
CreateNoteUnsaved(dir, title, now, order) ==
    LET listed == ListNotes(dir, order)
        note   == NewNote(now, FinalTitle(listed.ret.val, title, title, 1))
    IN  [dir |-> listed.dir, ret |-> Ok(note)]

CreateNote(dir, title, now, order) ==
    LET listed == ListNotes(dir, order)
        note   == NewNote(now, FinalTitle(listed.ret.val, title, title, 1))
        saved  == SaveNote(listed.dir, note)
    IN  [dir |-> saved.dir, ret |-> Ok(note)]

\* ---------------------------------------------------------------- PdfStore

SavePdf(dir, pdf) ==
    LET pdfs_dir == EnsureDir(dir)
        pdf_file == JsonFile(pdf.id)
        json     == PdfToJson(pdf)
    IN  [dir |-> FsWrite(pdfs_dir, pdf_file, json), ret |-> Ok(Unit)]

NewPdf(now) ==
    [id |-> "pdf_" \o ToString(now),
     name |-> "Sample PDF",
     path |-> "/path/to/sample.pdf",
     pages |-> 1,
     created_at |-> Decimal(now),
     updated_at |-> Decimal(now),
     annotations |-> Some(<<>>)]

ImportPdf(dir, now) ==
    LET pdf   == NewPdf(now)
        saved == SavePdf(dir, pdf)
    IN  [dir |-> saved.dir, ret |-> Ok(pdf)]

LoadPdf(dir, pdf_id) ==
    LET pdfs_dir == EnsureDir(dir)
        pdf_file == JsonFile(pdf_id)
    IN  IF ~FileExists(pdfs_dir, pdf_file)
        THEN [dir |-> pdfs_dir, ret |-> Err("PDF not found")]
        ELSE [dir |-> pdfs_dir, ret |-> PdfFromJson(pdfs_dir.files[pdf_file])]

\* the loop over read_dir: one PDFDocument per .json entry that parses
RECURSIVE ScanPdfs(_, _)
ScanPdfs(dir, order) ==
    IF order = <<>> THEN <<>>
    ELSE LET path == Head(order)
             pdf  == PdfFromJson(dir.files[path])
         IN  (IF Extension(path) = "json" /\ pdf.ok
              THEN <<pdf.val>>
              ELSE <<>>) \o ScanPdfs(dir, Tail(order))

ListPdfs(dir, order) ==
    LET pdfs_dir == EnsureDir(dir)
    IN  [dir |-> pdfs_dir, ret |-> Ok(SortBy(ScanPdfs(pdfs_dir, order)))]

DeletePdf(dir, pdf_id) ==
    LET pdfs_dir == EnsureDir(dir)
        pdf_file == JsonFile(pdf_id)
    IN  IF FileExists(pdfs_dir, pdf_file)
        THEN [dir |-> FsRemove(pdfs_dir, pdf_file), ret |-> Ok(Unit)]
        ELSE [dir |-> pdfs_dir, ret |-> Ok(Unit)]

\* annotations.iter().position(|a| a.id == annotation.id); 0 for None
Position(annotations, id) ==
    IF \E i \in DOMAIN annotations : annotations[i].id = id
    THEN CHOOSE i \in DOMAIN annotations :
            /\ annotations[i].id = id
            /\ \A k \in 1..(i - 1) : annotations[k].id # id
    ELSE 0

\* mutant: the old annotation is taken out and the new one pushed
UpsertAtEnd(annotations, annotation) ==
    LET Other(a) == a.id # annotation.id
    IN  Append(SelectSeq(annotations, Other), annotation)

\* replace the annotation with that id, or push
Upsert(annotations, annotation) ==
    LET existing_index == Position(annotations, annotation.id)
    IN  IF existing_index # 0
        THEN [annotations EXCEPT ![existing_index] = annotation]
        ELSE Append(annotations, annotation)

\* lines 279-296: the annotation put into the loaded document, and the stamp
WithAnnotation(pdf, annotation, now) ==
    LET annotations == IF pdf.annotations.some THEN pdf.annotations.v ELSE <<>>
    IN  [pdf EXCEPT !.annotations = Some(Upsert(annotations, annotation)),
                    !.updated_at = Decimal(now)]

\* mutant: a missing document is started afresh instead of refused
SavePdfAnnotationOrCreate(dir, pdf_id, annotation, now) ==
    LET loaded == LoadPdf(dir, pdf_id)
        pdf == IF loaded.ret.ok THEN loaded.ret.val
               ELSE [NewPdf(now) EXCEPT !.id = pdf_id]
        annotations == IF pdf.annotations.some THEN pdf.annotations.v ELSE <<>>
        updated == [pdf EXCEPT !.annotations = Some(Upsert(annotations, annotation)),
                               !.updated_at = Decimal(now)]
    IN  SavePdf(loaded.dir, updated)

SavePdfAnnotation(dir, pdf_id, annotation, now) ==
    LET loaded == LoadPdf(dir, pdf_id)
    IN  IF ~loaded.ret.ok
        THEN [dir |-> loaded.dir, ret |-> loaded.ret]
        ELSE LET pdf == loaded.ret.val
                 annotations == IF pdf.annotations.some THEN pdf.annotations.v ELSE <<>>
                 updated == [pdf EXCEPT !.annotations = Some(Upsert(annotations, annotation)),
                                        !.updated_at = Decimal(now)]
             IN  SavePdf(loaded.dir, updated)

\* ------------------------------------------------------------------ inputs

T9 == <<9>>

T10 == <<1, 0>>

T100 == <<1, 0, 0>>

T200 == <<2, 0, 0>>

T300 == <<3, 0, 0>>

Leaf(id, order) ==
    [id |-> id, type |-> "paragraph", content |-> "text", checked |-> None,
     file_path |-> None, children |-> None, order |-> order]

Todo ==
    [id |-> "b2", type |-> "todo", content |-> "buy milk", checked |-> Some(TRUE),
     file_path |-> Some("/tmp/list.txt"),
     children |-> Some(<<Leaf("b3", 5), Leaf("b4", 2)>>), order |-> 1]

\* (title, blocks, tags, updated_at) of the notes the frontend sends
NoteBodies ==
    { <<"X", <<>>, None, T200>>,
      <<"X 1", <<Leaf("b1", 0)>>, Some(<<>>), T100>>,
      <<"Y", <<Todo, Leaf("b5", 7)>>, Some(<<"work", "home">>), T100>> }

NoteOf(id, body) ==
    [id |-> id, title |-> body[1], blocks |-> body[2], created_at |-> T100,
     updated_at |-> body[4], tags |-> body[3]]

\* ids of the notes the frontend saves: one that create_note also gives, one
\* that names the file of the note "a" found on disk, and the empty string
NoteIds == {"note_0", "./a", ""}

Titles == {"X", "X 1"}

\* every body under the first id, one body under the others
NoteInputs ==
    {NoteOf("note_0", body) : body \in NoteBodies}
       \cup {NoteOf(id, <<"Y", <<Leaf("b1", 0)>>, None, T100>>) : id \in NoteIds \ {"note_0"}}

\* ids the frontend asks for: created or saved, on disk, truncated on disk,
\* never stored
NoteIdArgs == {"note_0", "a", "bad", "nonexistent"}

Annotation(id, type, content, color) ==
    [id |-> id, annotation_type |-> type, content |-> content, page |-> 1,
     rect |-> <<0, 0, 10, 20>>, color |-> color]

AnnotationInputs ==
    { Annotation("a1", "highlight", None, Some("#ffff00")),
      Annotation("a1", "comment", Some("second"), None),
      Annotation("a2", "comment", Some("other"), None) }

\* the annotation sequences the frontend sends, one with an id twice
AnnotationLists ==
    { None,
      Some(<<Annotation("a2", "drawing", None, None),
             Annotation("a1", "comment", Some("first"), None)>>),
      Some(<<Annotation("a1", "comment", Some("first"), None),
             Annotation("a1", "comment", Some("stale"), None)>>) }

PdfIds == {"pdf_0", "p"}

PdfInputs ==
    { [id |-> id, name |-> "paper.pdf", path |-> "/docs/paper.pdf", pages |-> 3,
       created_at |-> T100, updated_at |-> T200, annotations |-> annotations] :
         id \in PdfIds, annotations \in AnnotationLists }

PdfIdArgs == PdfIds \cup {"bad", "nope"}

\* ------------------------------------------------- directories found on disk

StoredNote(id, title, updated_at) ==
    NoteToJson([id |-> id, title |-> title, blocks |-> <<Leaf("b1", 0)>>,
                created_at |-> T9, updated_at |-> updated_at, tags |-> None])

StoredPdf(id, updated_at) ==
    PdfToJson([id |-> id, name |-> "paper.pdf", path |-> "/docs/paper.pdf", pages |-> 3,
               created_at |-> T9, updated_at |-> updated_at, annotations |-> None])

\* before the first command of a fresh install
FreshDir == [exists |-> FALSE, files |-> NoFiles]

Dir(files) == [exists |-> TRUE, files |-> files]

NotesListingDir ==
    Dir((JsonFile("a") :> StoredNote("a", "X", T100))
        @@ (JsonFile("b") :> StoredNote("b", "Y", T300))
        @@ (JsonFile("c") :> StoredNote("c", "X 1", T200)))

\* a truncated file, a file that is no .json, and two notes
NotesCorruptDir ==
    Dir((JsonFile("bad") :> Malformed)
        @@ ([stem |-> "backup", ext |-> "txt"] :> StoredNote("backup", "X", T300))
        @@ (JsonFile("a") :> StoredNote("a", "X", T10))
        @@ (JsonFile("b") :> StoredNote("b", "X", T9)))

PdfsListingDir ==
    Dir((JsonFile("p") :> StoredPdf("p", T100))
        @@ (JsonFile("q") :> StoredPdf("q", T300))
        @@ (JsonFile("r") :> StoredPdf("r", T200)))

\* a truncated file, a .json file of another shape, and two documents
PdfsCorruptDir ==
    Dir((JsonFile("bad") :> Malformed)
        @@ (JsonFile("note") :> StoredNote("note", "X", T300))
        @@ (JsonFile("p") :> StoredPdf("p", T10))
        @@ (JsonFile("q") :> StoredPdf("q", T9)))

\* the two directories as a run finds them
InitDirs ==
    { <<FreshDir, FreshDir>>,
      <<NotesListingDir, PdfsCorruptDir>>,
      <<NotesCorruptDir, PdfsListingDir>> }

NoCall == [op |-> "none", arg |-> Unit, ret |-> Ok(Unit)]

\* the frontend invocations that can be under way at once
Callers == {1, 2}

\* a caller that is in no command
Idle == [pc |-> "idle", op |-> "none"]

Init ==
    /\ \E dirs \in InitDirs : notes = dirs[1] /\ pdfs = dirs[2]
    /\ clock = 0
    /\ call = NoCall
    /\ prev = NoCall
    /\ ncalls = 0
    /\ frame = [c \in Callers |-> Idle]

\* ---------------------------------------------------------------- commands

Returned(op, arg, ret) ==
    /\ call' = [op |-> op, arg |-> arg, ret |-> ret]
    /\ prev' = call
    /\ ncalls' = ncalls + 1

save_note ==
    /\ ncalls < MaxCalls
    /\ \E note \in NoteInputs :
          LET r == SaveNote(notes, note)
          IN  notes' = r.dir /\ Returned("save_note", note, r.ret)
    /\ UNCHANGED <<pdfs, clock, frame>>

load_note ==
    /\ ncalls < MaxCalls
    /\ \E note_id \in NoteIdArgs :
          LET r == LoadNote(notes, note_id)
          IN  notes' = r.dir /\ Returned("load_note", note_id, r.ret)
    /\ UNCHANGED <<pdfs, clock, frame>>

list_notes ==
    /\ ncalls < MaxCalls
    /\ \E r \in {ListNotes(notes, order) : order \in ReadDirOrders(notes)} :
          notes' = r.dir /\ Returned("list_notes", Unit, r.ret)
    /\ UNCHANGED <<pdfs, clock, frame>>

delete_note ==
    /\ ncalls < MaxCalls
    /\ \E note_id \in NoteIdArgs :
          LET r == DeleteNote(notes, note_id)
          IN  notes' = r.dir /\ Returned("delete_note", note_id, r.ret)
    /\ UNCHANGED <<pdfs, clock, frame>>

\* SystemTime::now() reads any second from the last reading on
create_note ==
    /\ ncalls < MaxCalls
    /\ \E title \in Titles, now \in clock..MaxClock :
          \E r \in {CreateNote(notes, title, now, order) : order \in ReadDirOrders(notes)} :
             notes' = r.dir /\ clock' = now /\ Returned("create_note", title, r.ret)
    /\ UNCHANGED <<pdfs, frame>>

import_pdf ==
    /\ ncalls < MaxCalls
    /\ \E now \in clock..MaxClock :
          LET r == ImportPdf(pdfs, now)
          IN  pdfs' = r.dir /\ clock' = now /\ Returned("import_pdf", Unit, r.ret)
    /\ UNCHANGED <<notes, frame>>

save_pdf ==
    /\ ncalls < MaxCalls
    /\ \E pdf \in PdfInputs :
          LET r == SavePdf(pdfs, pdf)
          IN  pdfs' = r.dir /\ Returned("save_pdf", pdf, r.ret)
    /\ UNCHANGED <<notes, clock, frame>>

load_pdf ==
    /\ ncalls < MaxCalls
    /\ \E pdf_id \in PdfIdArgs :
          LET r == LoadPdf(pdfs, pdf_id)
          IN  pdfs' = r.dir /\ Returned("load_pdf", pdf_id, r.ret)
    /\ UNCHANGED <<notes, clock, frame>>

list_pdfs ==
    /\ ncalls < MaxCalls
    /\ \E r \in {ListPdfs(pdfs, order) : order \in ReadDirOrders(pdfs)} :
          pdfs' = r.dir /\ Returned("list_pdfs", Unit, r.ret)
    /\ UNCHANGED <<notes, clock, frame>>

delete_pdf ==
    /\ ncalls < MaxCalls
    /\ \E pdf_id \in PdfIdArgs :
          LET r == DeletePdf(pdfs, pdf_id)
          IN  pdfs' = r.dir /\ Returned("delete_pdf", pdf_id, r.ret)
    /\ UNCHANGED <<notes, clock, frame>>

\* the clock is read once load_pdf has returned the document
save_pdf_annotation ==
    /\ ncalls < MaxCalls
    /\ \E pdf_id \in PdfIdArgs, annotation \in AnnotationInputs :
          \E now \in IF LoadPdf(pdfs, pdf_id).ret.ok THEN clock..MaxClock ELSE {clock} :
             LET r == SavePdfAnnotation(pdfs, pdf_id, annotation, now)
             IN  /\ pdfs' = r.dir
                 /\ clock' = now
                 /\ Returned("save_pdf_annotation",
                             [pdf_id |-> pdf_id, annotation |-> annotation], r.ret)
    /\ UNCHANGED <<notes, frame>>

\* tauri::generate_handler!: the commands the frontend can invoke
Next ==
    \/ save_note
    \/ load_note
    \/ list_notes
    \/ delete_note
    \/ create_note
    \/ import_pdf
    \/ save_pdf
    \/ load_pdf
    \/ list_pdfs
    \/ delete_pdf
    \/ save_pdf_annotation

Spec == Init /\ [][Next]_vars

\* ------------------------------------------------- commands, step by step
\* create_note and save_pdf_annotation as the sequence of their file-system
\* calls.  A frame keeps the locals of the command under way; the frame of a
\* create_note that has returned (pc "done") keeps them with the note returned.

\* the callers inside a command
Running == {c \in Callers : frame[c].pc \notin {"idle", "done"}}

\* a caller invokes a command when it is in none
CanInvoke(c) ==
    /\ c \notin Running
    /\ ncalls + Cardinality(Running) < MaxCalls

\* lines 155-163: the clock is read, list_notes scans the directory
create_note_list(c) ==
    /\ CanInvoke(c)
    /\ \E r \in {ListNotes(notes, order) : order \in ReadDirOrders(notes)} :
          \E title \in Titles, now \in clock..MaxClock :
             /\ notes' = r.dir
             /\ clock' = now
             /\ frame' = [frame EXCEPT ![c] =
                            [pc |-> "while", op |-> "create_note", title |-> title,
                             now |-> now, existing_notes |-> r.ret.val,
                             final_title |-> title, counter |-> 1]]
    /\ UNCHANGED <<pdfs, call, prev, ncalls>>

\* lines 165-168: one test of the while condition, and the body when it holds
create_note_while(c) ==
    /\ frame[c].pc = "while"
    /\ LET f == frame[c]
       IN  frame' = [frame EXCEPT ![c] =
                       IF TitleTaken(f.existing_notes, f.final_title)
                       THEN [f EXCEPT !.final_title = Suffixed(f.title, f.counter),
                                      !.counter = f.counter + 1]
                       ELSE [f EXCEPT !.pc = "save"]]
    /\ UNCHANGED <<notes, pdfs, clock, call, prev, ncalls>>

\* lines 170-190: the note is built, saved and returned
create_note_save(c) ==
    /\ frame[c].pc = "save"
    /\ LET f    == frame[c]
           note == NewNote(f.now, f.final_title)
           r    == SaveNote(notes, note)
       IN  /\ notes' = r.dir
           /\ Returned("create_note", f.title, Ok(note))
           /\ frame' = [frame EXCEPT ![c] =
                          [pc |-> "done", op |-> "create_note", title |-> f.title,
                           existing_notes |-> f.existing_notes,
                           final_title |-> f.final_title, counter |-> f.counter,
                           ret |-> Ok(note)]]
    /\ UNCHANGED <<pdfs, clock>>

\* line 277: load_pdf(pdf_id)?, which returns the error of a failed load
save_pdf_annotation_load(c) ==
    /\ CanInvoke(c)
    /\ \E pdf_id \in PdfIdArgs, annotation \in AnnotationInputs :
          LET loaded == LoadPdf(pdfs, pdf_id)
              arg    == [pdf_id |-> pdf_id, annotation |-> annotation]
          IN  /\ pdfs' = loaded.dir
              /\ IF loaded.ret.ok
                 THEN /\ frame' = [frame EXCEPT ![c] =
                                     [pc |-> "upsert", op |-> "save_pdf_annotation",
                                      arg |-> arg, pdf |-> loaded.ret.val]]
                      /\ UNCHANGED <<call, prev, ncalls>>
                 ELSE /\ frame' = [frame EXCEPT ![c] =
                                     [pc |-> "done", op |-> "save_pdf_annotation"]]
                      /\ Returned("save_pdf_annotation", arg, loaded.ret)
    /\ UNCHANGED <<notes, clock>>

\* lines 279-298: the upsert in the loaded document, the stamp, save_pdf
save_pdf_annotation_save(c) ==
    /\ frame[c].pc = "upsert"
    /\ \E now \in clock..MaxClock :
          LET f == frame[c]
              r == SavePdf(pdfs, WithAnnotation(f.pdf, f.arg.annotation, now))
          IN  /\ pdfs' = r.dir
              /\ clock' = now
              /\ Returned("save_pdf_annotation", f.arg, r.ret)
              /\ frame' = [frame EXCEPT ![c] =
                             [pc |-> "done", op |-> "save_pdf_annotation"]]
    /\ UNCHANGED notes

InterleavedNext ==
    \E c \in Callers :
       \/ create_note_list(c)
       \/ create_note_while(c)
       \/ create_note_save(c)
       \/ save_pdf_annotation_load(c)
       \/ save_pdf_annotation_save(c)

SpecInterleaved == Init /\ [][InterleavedNext]_vars

\* a fresh install: neither store directory exists yet
InitEmpty == Init /\ notes = FreshDir /\ pdfs = FreshDir

SpecEmpty == InitEmpty /\ [][Next]_vars

\* ================================================================== claims

\* a step in which a command is invoked and returns
Invoked(op) == ncalls' = ncalls + 1 /\ call'.op = op

\* the titles list_notes reports for a directory
ListedTitles(dir) ==
    LET listed == ListNotes(dir, CHOOSE o \in ReadDirOrders(dir) : TRUE).ret.val
    IN  {listed[i].title : i \in DOMAIN listed}

C2_UniqueTitle ==
    [][Invoked("create_note") =>
          LET t        == call'.arg
              existing == ListedTitles(notes)
              got      == call'.ret.val.title
              Cand(k)  == t \o " " \o ToString(k)
          IN  /\ call'.ret.ok
              /\ got \notin existing
              /\ t \notin existing => got = t
              /\ t \in existing =>
                    \E k \in 1..(Cardinality(existing) + 1) :
                       /\ got = Cand(k)
                       /\ \A i \in 1..(k - 1) : Cand(i) \in existing
              /\ (call.op = "create_note" /\ call.arg = "X" /\ t = "X"
                     /\ call.ret.val.title = "X" /\ "X 1" \notin existing)
                    => got = "X 1"]_vars

\* "X" and "X 1" were taken, and create_note("X") returned "X 2"
C2_Witness ==
    /\ call.op = "create_note" /\ call.arg = "X"
    /\ call.ret.val.title = "X 2"
    /\ {"X", "X 1"} \subseteq ListedTitles(notes)

\* C3 (as claimed): a create_note never overwrites the file an earlier
\* create_note wrote, whatever the two clock readings, and gives its note an
\* id of its own; likewise two import_pdf.
C3_NoOverwrite ==
    /\ (call.op = "create_note" /\ prev.op = "create_note") =>
          /\ call.ret.val.id # prev.ret.val.id
          /\ LoadNote(notes, prev.ret.val.id).ret = Ok(prev.ret.val)
    /\ (call.op = "import_pdf" /\ prev.op = "import_pdf") =>
          /\ call.ret.val.id # prev.ret.val.id
          /\ LoadPdf(pdfs, prev.ret.val.id).ret = Ok(prev.ret.val)

\* the annotations of the document stored under pdf_id
StoredAnnotations(dir, pdf_id) ==
    LET pdf == LoadPdf(dir, pdf_id).ret.val
    IN  IF pdf.annotations.some THEN pdf.annotations.v ELSE <<>>

\* C4 (as claimed): after save_pdf_annotation(pdfId, a) succeeds, the stored
\* document holds exactly one annotation with a's id, and it equals a.
C4_ExactlyOne ==
    (call.op = "save_pdf_annotation" /\ call.ret.ok) =>
        LET stored == StoredAnnotations(pdfs, call.arg.pdf_id)
            same   == {i \in DOMAIN stored : stored[i].id = call.arg.annotation.id}
        IN  /\ Cardinality(same) = 1
            /\ \A i \in same : stored[i] = call.arg.annotation

\* C5: save_pdf_annotation on a pdfId with no file returns "PDF not found"
\* and leaves the files of the pdfs store, and their contents, as they were.
C5_MissingDocument ==
    [][(Invoked("save_pdf_annotation")
          /\ JsonFile(call'.arg.pdf_id) \notin DOMAIN pdfs.files) =>
             /\ call'.ret = Err("PDF not found")
             /\ pdfs'.files = pdfs.files
             /\ notes' = notes]_vars

\* the store holds documents, and the annotation for "nope" was refused
C5_Witness ==
    /\ call.op = "save_pdf_annotation"
    /\ call.arg.pdf_id = "nope"
    /\ call.ret = Err("PDF not found")
    /\ Cardinality(DOMAIN pdfs.files) >= 3

\* the number a string of digits denotes
RECURSIVE DecimalValue(_)
DecimalValue(s) ==
    IF s = <<>> THEN 0
    ELSE DecimalValue(SubSeq(s, 1, Len(s) - 1)) * 10 + s[Len(s)]

\* C6 (as claimed): of two save_note of the same id, the later leaves a
\* stored updated_at that is not smaller than the one the earlier left.
C6_MonotonicUpdatedAt ==
    (call.op = "save_note" /\ prev.op = "save_note" /\ call.arg.id = prev.arg.id) =>
        DecimalValue(LoadNote(notes, call.arg.id).ret.val.updated_at)
            >= DecimalValue(prev.arg.updated_at)

\* a precedes b in byte-wise lexicographic order
LexLess(a, b) ==
    \E k \in 0..Len(a) :
       /\ k <= Len(b)
       /\ \A i \in 1..k : a[i] = b[i]
       /\ \/ k = Len(a) /\ k < Len(b)
          \/ k < Len(a) /\ k < Len(b) /\ a[k + 1] < b[k + 1]

UpdatedAts(listed) == [i \in DOMAIN listed |-> listed[i].updated_at]

\* C7: list_notes and list_pdfs return their entries by updated_at descending
\* in lexicographic order: no entry is followed by one with a greater
\* updated_at.  Notes with "100", "300", "200" come back as 300, 200, 100.
C7_ListOrdering ==
    /\ call.op \in {"list_notes", "list_pdfs"} =>
          /\ call.ret.ok
          /\ \A i, k \in DOMAIN call.ret.val :
                i < k => ~LexLess(call.ret.val[i].updated_at, call.ret.val[k].updated_at)
    /\ (call.op = "list_notes" /\ notes = NotesListingDir) =>
          UpdatedAts(call.ret.val) = <<T300, T200, T100>>
    /\ (call.op = "list_pdfs" /\ pdfs = PdfsListingDir) =>
          UpdatedAts(call.ret.val) = <<T300, T200, T100>>

\* "9" is listed before "10": the order is the strings', not the numbers'
C7_Witness ==
    /\ call.op = "list_notes"
    /\ Len(call.ret.val) >= 3
    /\ \E i, k \in DOMAIN call.ret.val :
          /\ i < k
          /\ call.ret.val[i].updated_at = T9
          /\ call.ret.val[k].updated_at = T10

\* the .json files of the two stores whose text parses
ParsingNotes == {p \in DOMAIN notes.files : p.ext = "json" /\ NoteFromJson(notes.files[p]).ok}

ParsingPdfs == {p \in DOMAIN pdfs.files : p.ext = "json" /\ PdfFromJson(pdfs.files[p]).ok}

NoteEntry(p) == NoteMetadata(NoteFromJson(notes.files[p]).val)

PdfEntry(p) == PdfFromJson(pdfs.files[p]).val

C9_MissingLoad ==
    [][/\ Invoked("load_note") =>
             /\ (call'.ret = Err("Note not found"))
                   <=> (JsonFile(call'.arg) \notin DOMAIN notes.files)
             /\ ~call'.ret.ok => call'.ret.err \in {"Note not found", ParseError}
             /\ "Note not found" # ParseError
             /\ notes'.files = notes.files /\ pdfs' = pdfs
       /\ Invoked("load_pdf") =>
             /\ (call'.ret = Err("PDF not found"))
                   <=> (JsonFile(call'.arg) \notin DOMAIN pdfs.files)
             /\ ~call'.ret.ok => call'.ret.err \in {"PDF not found", ParseError}
             /\ "PDF not found" # ParseError
             /\ pdfs'.files = pdfs.files /\ notes' = notes]_vars

\* a load of an id with no file, in a store that holds other files
C9_Witness ==
    /\ call.op = "load_note"
    /\ call.arg = "nonexistent"
    /\ call.ret = Err("Note not found")
    /\ Cardinality(DOMAIN notes.files) >= 3

\* C10: delete_note(id) succeeds whether or not <id>.json exists and leaves
\* no file <id>.json; a second delete_note(id) succeeds too and changes no
\* file.  The same for delete_pdf.
C10_DeleteIdempotent ==
    [][/\ Invoked("delete_note") =>
             /\ call'.ret = Ok(Unit)
             /\ JsonFile(call'.arg) \notin DOMAIN notes'.files
             /\ LoadNote(notes', call'.arg).ret = Err("Note not found")
             /\ (call.op = "delete_note" /\ call.arg = call'.arg) =>
                   notes'.files = notes.files
       /\ Invoked("delete_pdf") =>
             /\ call'.ret = Ok(Unit)
             /\ JsonFile(call'.arg) \notin DOMAIN pdfs'.files
             /\ LoadPdf(pdfs', call'.arg).ret = Err("PDF not found")
             /\ (call.op = "delete_pdf" /\ call.arg = call'.arg) =>
                   pdfs'.files = pdfs.files]_vars

\* the note "a" was on disk, and delete_note("a") has returned twice
C10_Witness ==
    /\ call.op = "delete_note" /\ prev.op = "delete_note"
    /\ call.arg = "a" /\ prev.arg = "a"
    /\ call.ret.ok /\ prev.ret.ok
    /\ JsonFile("b") \in DOMAIN notes.files
    /\ JsonFile("a") \notin DOMAIN notes.files

\* C11: upsert position.  save_pdf_annotation(pdfId, a) that succeeds on a
\* document holding an annotation with a's id puts a at one position that
\* held that id and leaves the length and every other position as they were;
\* on a document holding none it leaves every annotation where it was and
\* adds a at the end.
C11_UpsertPosition ==
    [][(Invoked("save_pdf_annotation") /\ call'.ret.ok) =>
          LET a   == call'.arg.annotation
              old == StoredAnnotations(pdfs, call'.arg.pdf_id)
              new == StoredAnnotations(pdfs', call'.arg.pdf_id)
          IN  IF \E i \in DOMAIN old : old[i].id = a.id
              THEN /\ Len(new) = Len(old)
                   /\ \E p \in DOMAIN old :
                         /\ old[p].id = a.id
                         /\ new[p] = a
                         /\ \A i \in DOMAIN old \ {p} : new[i] = old[i]
              ELSE /\ Len(new) = Len(old) + 1
                   /\ new[Len(new)] = a
                   /\ \A i \in DOMAIN old : new[i] = old[i]]_vars

\* the document held a2 and then a1, and a2 was replaced where it stood
C11_Witness ==
    /\ call.op = "save_pdf_annotation" /\ call.ret.ok
    /\ prev.op = "save_pdf" /\ prev.arg.id = call.arg.pdf_id
    /\ call.arg.annotation.id = "a2"
    /\ LET stored == StoredAnnotations(pdfs, call.arg.pdf_id)
       IN  /\ Len(stored) = 2
           /\ stored[1] = call.arg.annotation
           /\ stored[2].id = "a1"
           /\ prev.arg.annotations.v[1] # call.arg.annotation

\* C13: create_note(title) returns a note with exactly one block, of type
\* heading, order 0, without children, checked or file_path, and with
\* created_at equal to updated_at; the note is stored: a load_note of the
\* returned id, from the store as create_note left it and as the command
\* invoked next, returns that same note.
C13_CreatedNote ==
    /\ call.op = "create_note" =>
          /\ call.ret.ok
          /\ LET note == call.ret.val
             IN  /\ Len(note.blocks) = 1
                 /\ note.blocks[1].type = "heading"
                 /\ note.blocks[1].order = 0
                 /\ note.blocks[1].children = None
                 /\ note.blocks[1].checked = None
                 /\ note.blocks[1].file_path = None
                 /\ note.created_at = note.updated_at
                 /\ LoadNote(notes, note.id).ret = Ok(note)
    /\ (call.op = "load_note" /\ prev.op = "create_note"
          /\ call.arg = prev.ret.val.id) => call.ret = Ok(prev.ret.val)

\* a note was created in a store that held other notes, and then loaded
C13_Witness ==
    /\ call.op = "load_note" /\ prev.op = "create_note"
    /\ call.arg = prev.ret.val.id
    /\ call.ret.ok
    /\ call.ret.val.blocks[1].type = "heading"
    /\ Cardinality(DOMAIN notes.files) >= 4

\* C15 (as claimed): in a run from an empty notes directory list_notes
\* returns exactly one entry for each id written by save_note or create_note
\* and not deleted since, carrying the id, title, created_at, updated_at and
\* tags last saved.  Stated for the runs of two commands: after one save_note
\* or create_note the listing is the one entry of that note, after any other
\* command it is empty.
C15_ListIsTheIndex ==
    (ncalls = 2 /\ call.op = "list_notes") =>
        /\ call.ret.ok
        /\ call.ret.val =
              IF prev.op = "save_note" THEN <<NoteMetadata(prev.arg)>>
              ELSE IF prev.op = "create_note" THEN <<NoteMetadata(prev.ret.val)>>
              ELSE <<>>

\* what load_note and load_pdf return for every id of the input sets: the
\* records of the two stores
NoteRecords(dir) == [id \in NoteIdArgs \cup NoteIds |-> LoadNote(dir, id).ret]

PdfRecords(dir) == [id \in PdfIdArgs |-> LoadPdf(dir, id).ret]

\* C16 (as claimed): save_note(n), delete_note(id) and
\* save_pdf_annotation(pdfId, a) leave the record of every other id of their
\* store as it was; load and list commands change no record; no note command
\* changes the pdfs store and no pdf command the notes store.
C16_Frame ==
    [][/\ Invoked("save_note") =>
             \A id \in DOMAIN NoteRecords(notes) \ {call'.arg.id} :
                NoteRecords(notes')[id] = NoteRecords(notes)[id]
       /\ Invoked("delete_note") =>
             \A id \in DOMAIN NoteRecords(notes) \ {call'.arg} :
                NoteRecords(notes')[id] = NoteRecords(notes)[id]
       /\ Invoked("save_pdf_annotation") =>
             \A id \in DOMAIN PdfRecords(pdfs) \ {call'.arg.pdf_id} :
                PdfRecords(pdfs')[id] = PdfRecords(pdfs)[id]
       /\ (Invoked("load_note") \/ Invoked("list_notes")) =>
             NoteRecords(notes') = NoteRecords(notes)
       /\ (Invoked("load_pdf") \/ Invoked("list_pdfs")) =>
             PdfRecords(pdfs') = PdfRecords(pdfs)
       /\ call'.op \in {"save_note", "load_note", "list_notes", "delete_note",
                        "create_note"} => pdfs' = pdfs
       /\ call'.op \in {"import_pdf", "save_pdf", "load_pdf", "list_pdfs",
                        "delete_pdf", "save_pdf_annotation"} => notes' = notes]_vars

\* callers c and d have both returned from create_note
BothCreated(c, d) ==
    /\ c # d
    /\ frame[c].pc = "done" /\ frame[c].op = "create_note"
    /\ frame[d].pc = "done" /\ frame[d].op = "create_note"

\* the notes the two create_note returned are two stored notes of one title
SameTitleStored(c, d) ==
    LET nc == frame[c].ret.val
        nd == frame[d].ret.val
    IN  /\ nc.id # nd.id
        /\ nc.title = nd.title
        /\ LoadNote(notes, nc.id).ret = Ok(nc)
        /\ LoadNote(notes, nd.id).ret = Ok(nd)

\* the scan of a create_note listed that note as it is now stored
Listed(existing_notes, note) ==
    \E i \in DOMAIN existing_notes : existing_notes[i] = NoteMetadata(note)

\* C12: create-title race.  Two create_note leave two stored notes with the
\* same title only when they interleaved so that each one's directory scan
\* ran before the other's save (neither scan lists the other's note); created
\* one at a time, the later scan lists the earlier note and the titles
\* differ.  The witness is the state the race leaves.
C12_TitleRace ==
    \A c, d \in Callers :
       (BothCreated(c, d) /\ SameTitleStored(c, d)) =>
           /\ ~Listed(frame[c].existing_notes, frame[d].ret.val)
           /\ ~Listed(frame[d].existing_notes, frame[c].ret.val)

\* two create_note("X") have returned the same title for two stored notes
C12_Witness ==
    /\ BothCreated(1, 2)
    /\ frame[1].title = "X" /\ frame[2].title = "X"
    /\ SameTitleStored(1, 2)

\* C14 (as claimed): when two save_pdf_annotation with different annotation
\* ids on the same document have both returned success, however their
\* load_pdf and save_pdf interleaved, the stored document holds both
\* annotations.
C14_NoLostAnnotation ==
    (/\ call.op = "save_pdf_annotation" /\ prev.op = "save_pdf_annotation"
     /\ call.ret.ok /\ prev.ret.ok
     /\ call.arg.pdf_id = prev.arg.pdf_id
     /\ call.arg.annotation.id # prev.arg.annotation.id) =>
        LET stored == StoredAnnotations(pdfs, call.arg.pdf_id)
        IN  /\ \E i \in DOMAIN stored : stored[i] = call.arg.annotation
            /\ \E i \in DOMAIN stored : stored[i] = prev.arg.annotation

\* the candidates the loop of a create_note has tested and found taken
Rejected(f) == {f.title} \cup {Suffixed(f.title, k) : k \in 1..(f.counter - 1)}

\* C17: create_note terminates.  The titles listed at the start stay the
\* call's existing_notes whatever other callers write; every iteration of the
\* while loop moves to a candidate not tested before and counts it; the count
\* of candidates never exceeds the number of listed notes plus one; so the
\* loop is left, with the title FinalTitle computes, after at most that many
\* tests.
C17_LoopTerminates ==
    [][\A c \in Callers :
         /\ frame'[c].op = "create_note" =>
               /\ frame'[c].counter <= Len(frame'[c].existing_notes) + 1
               /\ frame'[c].pc \in {"save", "done"} =>
                     /\ ~TitleTaken(frame'[c].existing_notes, frame'[c].final_title)
                     /\ frame'[c].final_title =
                           FinalTitle(frame'[c].existing_notes, frame'[c].title,
                                      frame'[c].title, 1)
         /\ frame[c].pc = "while" =>
               /\ frame'[c].pc \in {"while", "save"}
               /\ frame'[c].existing_notes = frame[c].existing_notes
               /\ (frame'[c] # frame[c] /\ frame'[c].pc = "while") =>
                     /\ frame'[c].counter = frame[c].counter + 1
                     /\ frame'[c].final_title \notin Rejected(frame[c])]_vars

\* a create_note left the loop having tested one candidate more than the
\* notes it had listed, all of them taken but the last
C17_Witness ==
    \E c \in Callers :
       /\ frame[c].pc = "done" /\ frame[c].op = "create_note"
       /\ Len(frame[c].existing_notes) >= 1
       /\ frame[c].counter = Len(frame[c].existing_notes) + 1

====
